---------------------------- MODULE Spec2Model ----------------------------
(***************************************************************************)
(* Mastermind code breaker (src/src/main.rs): the Board's pattern encoding *)
(* and feedback computation, the Game's precomputed feedback matrix with   *)
(* its minimax guess selection and candidate filtering, and the three      *)
(* driver loops (play_interactive, play_auto, count_guesses).              *)
(*                                                                         *)
(* Patterns are naturals, 0-based as in the source; a Vec indexed by a     *)
(* pattern is a function over 0..n-1; a String is a sequence of one        *)
(* character strings. The u32 values of the source stay far below 2^32     *)
(* on the boards modelled (at most MaxPatterns patterns, sums of squares   *)
(* at most MaxPatterns^2), so no operation is taken modulo 2^32. What the  *)
(* drivers print is not modelled; a panic is the position "panic".         *)
(***************************************************************************)
EXTENDS Integers, Sequences, FiniteSets, TLC

VARIABLES
    board,          \* Board { color_count, hole_count }
    color_chars,    \* the alphabet, args[1].chars()
    matches,        \* Game.matches: the feedback matrix
    pattern_list,   \* Game.pattern_list: the candidates, in order
    mode,           \* which driver runs: "interactive", "guess", "all"
    code_str,       \* args[3], the secret as a string ("guess" mode)
    code,           \* the secret pattern (play_auto, count_guesses)
    pc,             \* position in the driver loop
    guess,          \* last guess returned by get_guess
    possibles,      \* last candidate count returned by get_guess
    keys,           \* last feedback read or computed
    count,          \* count_guesses' counter: get_guess calls so far (the
                    \* turns of the other drivers; apply_match calls in
                    \* a run of direct calls)
    call            \* last direct call of a Board function or Game method

vars == <<board, color_chars, matches, pattern_list, mode, code_str, code,
          pc, guess, possibles, keys, count, call>>

----------------------------------------------------------------------------
(* Bounds of the model *)

MaxColors == 4

MaxHoles == 3

MaxPatterns == 27

(* Runs of direct calls of the Game's methods: the largest board, and the *)
(* number of apply_match calls.                                            *)
MaxCallPatterns == 16

MaxCalls == 3

(* The characters alphabets and code strings are drawn from. *)
Symbols == <<"A", "B", "C", "D", "E", "F", "G", "H">>

----------------------------------------------------------------------------
(* Helpers for Vec / iterator idioms *)

Range(s) == {s[i] : i \in 1..Len(s)}

RECURSIVE Pow(_, _)
Pow(b, e) == IF e = 0 THEN 1 ELSE b * Pow(b, e - 1)

Min2(a, b) == IF a < b THEN a ELSE b

Max2(a, b) == IF a < b THEN b ELSE a

RECURSIVE Reverse(_)
Reverse(s) == IF s = <<>> THEN <<>> ELSE Append(Reverse(Tail(s)), Head(s))

(* iter().position(pred): the 0-based index of the first element equal to  *)
(* c, as Option: [some |-> FALSE] is None.                                  *)
RECURSIVE PositionFrom(_, _, _)
PositionFrom(s, c, i) ==
    IF i > Len(s) THEN [some |-> FALSE, idx |-> 0]
    ELSE IF s[i] = c THEN [some |-> TRUE, idx |-> i - 1]
    ELSE PositionFrom(s, c, i + 1)

Position(s, c) == PositionFrom(s, c, 1)

----------------------------------------------------------------------------
(* Board *)

MatchKeysNew(exact_count, color_count) ==
    [exact_count |-> exact_count, color_count |-> color_count]

BoardNew(color_count, hole_count) ==
    [color_count |-> color_count, hole_count |-> hole_count]

total_pattern_count(self) == Pow(self.color_count, self.hole_count)

(* pattern_colors.iter().zip(guess_colors.iter()).map(min).sum() *)
RECURSIVE ZipMinSum(_, _, _, _)
ZipMinSum(pattern_colors, guess_colors, i, n) ==
    IF i >= n THEN 0
    ELSE Min2(pattern_colors[i], guess_colors[i])
         + ZipMinSum(pattern_colors, guess_colors, i + 1, n)

(* compute_match with the color tallies taken on every hole, exact or not. *)
RECURSIVE MatchLoopTallyAll(_, _, _, _, _, _, _)
MatchLoopTallyAll(self, left, pattern, guess_, exact_count, pattern_colors, guess_colors) ==
    IF left = 0
    THEN [exact_count |-> exact_count, pattern_colors |-> pattern_colors,
          guess_colors |-> guess_colors]
    ELSE LET pattern_digit == pattern % self.color_count
             guess_digit == guess_ % self.color_count
         IN  MatchLoopTallyAll(self, left - 1, pattern \div self.color_count,
                 guess_ \div self.color_count,
                 IF pattern_digit = guess_digit THEN exact_count + 1 ELSE exact_count,
                 [pattern_colors EXCEPT ![pattern_digit] = @ + 1],
                 [guess_colors EXCEPT ![guess_digit] = @ + 1])

(* The for loop of compute_match, its body run `left` more times: the      *)
(* exact count and the two color tallies it leaves.                        *)
RECURSIVE MatchLoop(_, _, _, _, _, _, _)
MatchLoop(self, left, pattern, guess_, exact_count, pattern_colors, guess_colors) ==
    IF left = 0
    THEN [exact_count |-> exact_count, pattern_colors |-> pattern_colors,
          guess_colors |-> guess_colors]
    ELSE LET pattern_digit == pattern % self.color_count
             guess_digit == guess_ % self.color_count
         IN  IF pattern_digit = guess_digit
             THEN MatchLoop(self, left - 1, pattern \div self.color_count,
                            guess_ \div self.color_count, exact_count + 1,
                            pattern_colors, guess_colors)
             ELSE MatchLoop(self, left - 1, pattern \div self.color_count,
                            guess_ \div self.color_count, exact_count,
                            [pattern_colors EXCEPT ![pattern_digit] = @ + 1],
                            [guess_colors EXCEPT ![guess_digit] = @ + 1])

Tallies(self, pattern, guess_) ==
    MatchLoop(self, self.hole_count, pattern, guess_, 0,
              [d \in 0..(self.color_count - 1) |-> 0],
              [d \in 0..(self.color_count - 1) |-> 0])

(* compute_match counting every unmatched guess color the pattern has     *)
(* left, without the minimum.                                              *)
RECURSIVE OneSidedSum(_, _, _, _)
OneSidedSum(pattern_colors, guess_colors, i, n) ==
    IF i >= n THEN 0
    ELSE (IF pattern_colors[i] > 0 THEN guess_colors[i] ELSE 0)
         + OneSidedSum(pattern_colors, guess_colors, i + 1, n)

compute_match_one_sided(self, pattern, guess_) ==
    LET t == Tallies(self, pattern, guess_)
    IN  MatchKeysNew(t.exact_count,
                     OneSidedSum(t.pattern_colors, t.guess_colors, 0, self.color_count))

compute_match(self, pattern, guess_) ==
    LET t == Tallies(self, pattern, guess_)
    IN  MatchKeysNew(t.exact_count,
                     ZipMinSum(t.pattern_colors, t.guess_colors, 0, self.color_count))

(* The map closure of pattern_to_string: the characters least significant  *)
(* digit first.                                                            *)
RECURSIVE DigitChars(_, _, _, _)
DigitChars(self, left, pattern, chars) ==
    IF left = 0 THEN <<>>
    ELSE <<chars[(pattern % self.color_count) + 1]>>
         \o DigitChars(self, left - 1, pattern \div self.color_count, chars)

(* pattern_to_string without the .rev() *)
pattern_to_string_no_rev(self, pattern, chars) ==
    DigitChars(self, self.hole_count, pattern, chars)

pattern_to_string(self, pattern, chars) ==
    Reverse(DigitChars(self, self.hole_count, pattern, chars))

(* The fold of string_to_pattern; a character that is not in the alphabet  *)
(* makes unwrap() panic.                                                   *)
RECURSIVE FoldDigits(_, _, _, _)
FoldDigits(self, s, chars, acc) ==
    IF s = <<>> THEN [panic |-> FALSE, value |-> acc]
    ELSE LET x == Position(chars, Head(s))
         IN  IF ~x.some THEN [panic |-> TRUE, value |-> 0]
             ELSE FoldDigits(self, Tail(s), chars, acc * self.color_count + x.idx)

(* string_to_pattern folding with hole_count as the base *)
string_to_pattern_hole_base(self, s, chars) ==
    FoldDigits([self EXCEPT !.color_count = self.hole_count], s, chars, 0)

string_to_pattern(self, s, chars) == FoldDigits(self, s, chars, 0)

----------------------------------------------------------------------------
(* Game *)

compute_all_matches(b) ==
    LET pattern_count == total_pattern_count(b)
    IN  [pattern \in 0..(pattern_count - 1) |->
            [guess_ \in 0..(pattern_count - 1) |-> compute_match(b, pattern, guess_)]]

(* (0..board.total_pattern_count()).collect() *)
AllPatterns(b) == [i \in 1..total_pattern_count(b) |-> i - 1]

(* The derived Ord of MatchKeys: by exact_count, then by color_count. *)
KeyLess(a, b) ==
    \/ a.exact_count < b.exact_count
    \/ a.exact_count = b.exact_count /\ a.color_count < b.color_count

(* possibles.sort() *)
RECURSIVE Insert(_, _)
Insert(k, sorted) ==
    IF sorted = <<>> THEN <<k>>
    ELSE IF KeyLess(k, Head(sorted)) THEN <<k>> \o sorted
    ELSE <<Head(sorted)>> \o Insert(k, Tail(sorted))

RECURSIVE Sort(_)
Sort(s) == IF s = <<>> THEN <<>> ELSE Insert(Head(s), Sort(Tail(s)))

(* rest.iter().position(|&k| k != key).unwrap_or(rest.len()) *)
RECURSIVE GroupLength(_, _, _)
GroupLength(rest, key, i) ==
    IF i > Len(rest) THEN Len(rest)
    ELSE IF rest[i] # key THEN i - 1
    ELSE GroupLength(rest, key, i + 1)

(* The while let loop over the sorted keys: <<row_max, total_length>>. *)
RECURSIVE ScanGroups(_, _, _)
ScanGroups(rest, row_max, total_length) ==
    IF rest = <<>> THEN <<row_max, total_length>>
    ELSE LET group_length == GroupLength(rest, Head(rest), 1)
         IN  ScanGroups(SubSeq(rest, group_length + 1, Len(rest)),
                        Max2(row_max, group_length),
                        total_length + group_length * group_length)

(* The MatchKeys of the remaining patterns against one guess, sorted, then *)
(* scanned.                                                                *)
RowScore(match_row, list) ==
    ScanGroups(Sort([i \in 1..Len(list) |-> match_row[list[i]]]), 0, 0)

(* The test with <= for the tie-breaker: the last of equal guesses wins. *)
IsBetterOrEqual(row_max, total_length, best) ==
    \/ row_max < best.row_max
    \/ row_max = best.row_max /\ total_length <= best.total_length

(* The test with the comparison of row_max turned around. *)
IsBetterLargest(row_max, total_length, best) ==
    \/ row_max > best.row_max
    \/ row_max = best.row_max /\ total_length < best.total_length

(* The test that replaces `best`. *)
IsBetter(row_max, total_length, best) ==
    \/ row_max < best.row_max
    \/ row_max = best.row_max /\ total_length < best.total_length

(* for guess in 0..self.matches.len(): `best` after the guesses from       *)
(* guess_ on; [some |-> FALSE] is None.                                    *)
RECURSIVE GuessLoop(_, _, _, _, _)
GuessLoop(m, list, guess_, n, best) ==
    IF guess_ >= n THEN best
    ELSE LET score == RowScore(m[guess_], list)
             cand == [some |-> TRUE, row_max |-> score[1],
                      total_length |-> score[2], guess |-> guess_]
         IN  IF best.some
             THEN IF IsBetter(score[1], score[2], best)
                  THEN GuessLoop(m, list, guess_ + 1, n, cand)
                  ELSE GuessLoop(m, list, guess_ + 1, n, best)
             ELSE GuessLoop(m, list, guess_ + 1, n, cand)

NoBest == [some |-> FALSE, row_max |-> 0, total_length |-> 0, guess |-> 0]

(* Number of candidates up to which get_guess returns the first one. *)
ShortcutLen == 2

(* get_guess without the early return for one or two candidates. *)
get_guess_always_search(m, list) ==
    LET best == GuessLoop(m, list, 0, Cardinality(DOMAIN m), NoBest)
    IN  IF Len(list) = 0 \/ ~best.some
        THEN [panic |-> TRUE, guess |-> 0, possibles |-> 0]
        ELSE [panic |-> FALSE, guess |-> best.guess, possibles |-> Len(list)]

(* Game::get_guess: the pair it returns, or the panic of indexing          *)
(* pattern_list[0] of an empty list (of best.unwrap() of None cannot       *)
(* happen: more than two candidates imply a nonempty matrix).              *)
get_guess(m, list) ==
    IF Len(list) <= ShortcutLen
    THEN IF Len(list) = 0
         THEN [panic |-> TRUE, guess |-> 0, possibles |-> 0]
         ELSE [panic |-> FALSE, guess |-> list[1], possibles |-> Len(list)]
    ELSE LET best == GuessLoop(m, list, 0, Cardinality(DOMAIN m), NoBest)
         IN  IF ~best.some
             THEN [panic |-> TRUE, guess |-> 0, possibles |-> 0]
             ELSE [panic |-> FALSE, guess |-> best.guess, possibles |-> Len(list)]

(* Game::apply_match: pattern_list.retain(|&p| guess_row[p] == match_keys);  *)
(* Keep is its closure.                                                    *)
(* The retain closure comparing the exact counts only. *)
KeepExactOnly(guess_row, match_keys, p) ==
    guess_row[p].exact_count = match_keys.exact_count

Keep(guess_row, match_keys, p) == guess_row[p] = match_keys

(* apply_match removing the candidates that retain() is to keep. *)
apply_match_inverted(m, list, guess_, match_keys) ==
    SelectSeq(list, LAMBDA p : m[guess_][p] # match_keys)

apply_match(m, list, guess_, match_keys) ==
    LET guess_row == m[guess_]
    IN  SelectSeq(list, LAMBDA p : Keep(guess_row, match_keys, p))

----------------------------------------------------------------------------
(* Inputs *)

(* Sequences of length n over the set S. *)
SeqsOfLen(S, n) == [1..n -> S]

(* The configurations main() can be started with, within the bounds:       *)
(* args[1] gives the alphabet and the color count, args[0] the hole count. *)
Boards ==
    {b \in [color_count : 0..MaxColors, hole_count : 0..MaxHoles] :
        total_pattern_count(b) <= MaxPatterns}

(* The alphabet of the driver runs: the first n symbols. *)
FirstSymbols(n) == [i \in 1..n |-> Symbols[i]]

(* A character that is in no alphabet of the driver runs. *)
ForeignChar == Symbols[MaxColors + 1]

(* args[3] of the "guess" mode: any string of hole_count characters, of    *)
(* the alphabet or not, and the strings of the alphabet one longer.        *)
CodeStrings(b, chars) ==
    SeqsOfLen(Range(chars) \cup {ForeignChar}, b.hole_count)
    \cup SeqsOfLen(Range(chars), b.hole_count + 1)

(* What read_match_keys can return: any pair of u32, here up to one above  *)
(* the hole count (no MatchKeys of the matrix has a larger count).         *)
KeyInputs(b) ==
    {MatchKeysNew(e, c) : e \in 0..(b.hole_count + 1), c \in 0..(b.hole_count + 1)}

NoKeys == MatchKeysNew(0, 0)

NoCall == [op |-> "none", pattern |-> 0, guess |-> 0, str |-> <<>>,
           keys |-> NoKeys, value |-> 0, panic |-> FALSE]

----------------------------------------------------------------------------
(* The drivers: play_interactive, play_auto, count_guesses *)

Init ==
    /\ board \in Boards
    /\ color_chars = FirstSymbols(board.color_count)
    /\ matches = compute_all_matches(board)
    /\ pattern_list = AllPatterns(board)
    /\ mode \in {"interactive", "guess", "all"}
    /\ code_str \in IF mode = "guess" THEN CodeStrings(board, color_chars) ELSE {<<>>}
    /\ code \in IF mode = "all" THEN 0..(total_pattern_count(board) - 1) ELSE {0}
    /\ pc = IF mode = "guess" THEN "start" ELSE "get_guess"
    /\ guess = 0
    /\ possibles = 0
    /\ keys = NoKeys
    /\ count = 0
    /\ call = NoCall

(* play_auto: let code = game.board.string_to_pattern(code, color_chars) *)
ParseCode ==
    /\ pc = "start"
    /\ LET r == string_to_pattern(board, code_str, color_chars)
       IN  /\ code' = r.value
           /\ pc' = IF r.panic THEN "panic" ELSE "get_guess"
    /\ UNCHANGED <<board, color_chars, matches, pattern_list, mode, code_str,
                   guess, possibles, keys, count, call>>

(* count += 1; let (guess, possibles) = game.get_guess();                  *)
(* if possibles == 1 { break }                                             *)
GetGuess ==
    /\ pc = "get_guess"
    /\ LET r == get_guess(matches, pattern_list)
       IN  /\ guess' = r.guess
           /\ possibles' = r.possibles
           /\ pc' = IF r.panic THEN "panic"
                    ELSE IF r.possibles = 1 THEN "answer"
                    ELSE "feedback"
    /\ count' = count + 1
    /\ UNCHANGED <<board, color_chars, matches, pattern_list, mode, code_str,
                   code, keys, call>>

(* play_interactive: let keys = read_match_keys() *)
ReadMatchKeys ==
    /\ pc = "feedback"
    /\ mode = "interactive"
    /\ keys' \in KeyInputs(board)
    /\ pc' = "check"
    /\ UNCHANGED <<board, color_chars, matches, pattern_list, mode, code_str,
                   code, guess, possibles, count, call>>

(* play_auto, count_guesses: let keys = game.board.compute_match(guess, code) *)
ComputeKeys ==
    /\ pc = "feedback"
    /\ mode \in {"guess", "all"}
    /\ keys' = compute_match(board, guess, code)
    /\ pc' = "check"
    /\ UNCHANGED <<board, color_chars, matches, pattern_list, mode, code_str,
                   code, guess, possibles, count, call>>

(* if keys == MatchKeys::new(hole_count, 0) { break } *)
LuckyGuess ==
    /\ pc = "check"
    /\ keys = MatchKeysNew(board.hole_count, 0)
    /\ pc' = "lucky"
    /\ UNCHANGED <<board, color_chars, matches, pattern_list, mode, code_str,
                   code, guess, possibles, keys, count, call>>

(* game.apply_match(guess, keys), and around the loop *)
ApplyMatch ==
    /\ pc = "check"
    /\ keys # MatchKeysNew(board.hole_count, 0)
    /\ pattern_list' = apply_match(matches, pattern_list, guess, keys)
    /\ pc' = "get_guess"
    /\ UNCHANGED <<board, color_chars, matches, mode, code_str, code, guess,
                   possibles, keys, count, call>>

Next ==
    \/ ParseCode
    \/ GetGuess
    \/ ReadMatchKeys
    \/ ComputeKeys
    \/ LuckyGuess
    \/ ApplyMatch

Spec == Init /\ [][Next]_vars

----------------------------------------------------------------------------
(* Direct calls of the Game's methods, as a caller of the type may make    *)
(* them: get_guess at any time, apply_match with any guess and any keys.   *)

GameInit ==
    /\ board \in {b \in Boards : total_pattern_count(b) <= MaxCallPatterns}
    /\ color_chars = FirstSymbols(board.color_count)
    /\ matches = compute_all_matches(board)
    /\ pattern_list = AllPatterns(board)
    /\ mode = "calls"
    /\ code_str = <<>>
    /\ code = 0
    /\ pc = "calls"
    /\ guess = 0
    /\ possibles = 0
    /\ keys = NoKeys
    /\ count = 0
    /\ call = NoCall

CallGetGuess ==
    /\ pc = "calls"
    /\ LET r == get_guess(matches, pattern_list)
       IN  call' = [NoCall EXCEPT !.op = "get_guess", !.panic = r.panic,
                                  !.guess = r.guess, !.value = r.possibles]
    /\ UNCHANGED <<board, color_chars, matches, pattern_list, mode, code_str,
                   code, pc, guess, possibles, keys, count>>

CallApplyMatch ==
    /\ pc = "calls"
    /\ count < MaxCalls
    /\ \E g \in DOMAIN matches, k \in KeyInputs(board) :
          /\ pattern_list' = apply_match(matches, pattern_list, g, k)
          /\ call' = [NoCall EXCEPT !.op = "apply_match", !.guess = g,
                                     !.keys = k]
    /\ count' = count + 1
    /\ UNCHANGED <<board, color_chars, matches, mode, code_str, code, pc,
                   guess, possibles, keys>>

GameNext ==
    \/ CallGetGuess
    \/ CallApplyMatch

GameSpec == GameInit /\ [][GameNext]_vars

----------------------------------------------------------------------------
(* Direct calls of the Board's functions on every pattern of the board;    *)
(* the alphabet is an argument of the call: any color_count characters,    *)
(* distinct or not.                                                        *)

Alphabets(b) == SeqsOfLen(Range(FirstSymbols(MaxColors)), b.color_count)

BoardInit ==
    /\ board \in Boards
    /\ color_chars = <<>>
    /\ matches = <<>>
    /\ pattern_list = <<>>
    /\ mode = "board"
    /\ code_str = <<>>
    /\ code = 0
    /\ pc = "board"
    /\ guess = 0
    /\ possibles = 0
    /\ keys = NoKeys
    /\ count = 0
    /\ call = NoCall

Patterns == 0..(total_pattern_count(board) - 1)

CallTotalPatternCount ==
    /\ pc = "board"
    /\ call = NoCall
    /\ call' = [NoCall EXCEPT !.op = "total_pattern_count",
                               !.value = total_pattern_count(board)]
    /\ UNCHANGED <<board, color_chars, matches, pattern_list, mode, code_str,
                   code, pc, guess, possibles, keys, count>>

CallComputeMatch ==
    /\ pc = "board"
    /\ call = NoCall
    /\ \E p \in Patterns, g \in Patterns :
          call' = [NoCall EXCEPT !.op = "compute_match", !.pattern = p,
                                  !.guess = g,
                                  !.keys = compute_match(board, p, g)]
    /\ UNCHANGED <<board, color_chars, matches, pattern_list, mode, code_str,
                   code, pc, guess, possibles, keys, count>>

CallPatternToString ==
    /\ pc = "board"
    /\ call = NoCall
    /\ \E p \in Patterns, chars \in Alphabets(board) :
          /\ color_chars' = chars
          /\ call' = [NoCall EXCEPT !.op = "pattern_to_string", !.pattern = p,
                                     !.str = pattern_to_string(board, p, chars)]
    /\ UNCHANGED <<board, matches, pattern_list, mode, code_str, code, pc,
                   guess, possibles, keys, count>>

CallStringToPattern ==
    /\ pc = "board"
    /\ call = NoCall
    /\ \E chars \in Alphabets(board) :
       \E s \in SeqsOfLen(Range(FirstSymbols(MaxColors)), board.hole_count) :
          LET r == string_to_pattern(board, s, chars)
          IN  /\ color_chars' = chars
              /\ call' = [NoCall EXCEPT !.op = "string_to_pattern", !.str = s,
                                         !.value = r.value, !.panic = r.panic]
    /\ UNCHANGED <<board, matches, pattern_list, mode, code_str, code, pc,
                   guess, possibles, keys, count>>

(* string_to_pattern(pattern_to_string(p, alphabet), alphabet) *)
CallRoundTrip ==
    /\ pc = "board"
    /\ call = NoCall
    /\ \E p \in Patterns, chars \in Alphabets(board) :
          LET s == pattern_to_string(board, p, chars)
              r == string_to_pattern(board, s, chars)
          IN  /\ color_chars' = chars
              /\ call' = [NoCall EXCEPT !.op = "round_trip", !.pattern = p,
                                         !.str = s, !.value = r.value,
                                         !.panic = r.panic]
    /\ UNCHANGED <<board, matches, pattern_list, mode, code_str, code, pc,
                   guess, possibles, keys, count>>

BoardNext ==
    \/ CallTotalPatternCount
    \/ CallComputeMatch
    \/ CallPatternToString
    \/ CallStringToPattern
    \/ CallRoundTrip

BoardSpec == BoardInit /\ [][BoardNext]_vars

----------------------------------------------------------------------------
(* Properties of the Board's functions (checked under BoardSpec) *)

(* The color of hole i of a pattern, holes counted from the least          *)
(* significant digit, i in 0..hole_count-1.                                *)
Digit(b, p, i) == (p \div Pow(b.color_count, i)) % b.color_count

Holes(b) == 0..(b.hole_count - 1)

ExactHoles(b, p, g) == {i \in Holes(b) : Digit(b, p, i) = Digit(b, g, i)}

(* How many of the non-exact holes of p (against g) have color col. *)
Remaining(b, p, g, col) ==
    Cardinality({i \in Holes(b) \ ExactHoles(b, p, g) : Digit(b, p, i) = col})

RECURSIVE SumOfMin(_, _, _, _)
SumOfMin(b, p, g, col) ==
    IF col >= b.color_count THEN 0
    ELSE Min2(Remaining(b, p, g, col), Remaining(b, g, p, col))
         + SumOfMin(b, p, g, col + 1)

Distinct(s) == \A i, j \in 1..Len(s) : s[i] = s[j] => i = j

(* The board of the tests: 3 colors, 2 holes. *)
TestColors == 3

TestHoles == 2

TestBoard == BoardNew(TestColors, TestHoles)

TestAlphabet == <<"A", "B", "C">>

(* C6: compute_match is symmetric: for every pair of patterns of the board *)
(* compute_match(pattern, guess) = compute_match(guess, pattern).          *)
C6_Symmetry ==
    call.op = "compute_match"
        => call.keys = compute_match(board, call.guess, call.pattern)

(* a pair of different patterns with a color-only match *)
C6_Witness ==
    /\ call.op = "compute_match"
    /\ call.pattern # call.guess
    /\ call.keys.color_count > 0
    /\ call.keys.exact_count > 0

(* C7: compute_match returns exact_count = the number of holes where both  *)
(* patterns have the same color, and color_count = the sum over the colors *)
(* of the minimum of the color's counts among the non-exact holes of the   *)
(* pattern and of the guess; on the 3-color 2-hole board                   *)
(* compute_match(0,1) = {1,0} and compute_match(1,3) = {0,2}.              *)
C7_MatchValue ==
    call.op = "compute_match" =>
        /\ call.keys.exact_count
              = Cardinality(ExactHoles(board, call.pattern, call.guess))
        /\ call.keys.color_count = SumOfMin(board, call.pattern, call.guess, 0)
        /\ (board = TestBoard /\ call.pattern = 0 /\ call.guess = 1)
              => call.keys = MatchKeysNew(1, 0)
        /\ (board = TestBoard /\ call.pattern = 1 /\ call.guess = 3)
              => call.keys = MatchKeysNew(0, 2)

(* the second example of the claim: AB against BA *)
C7_Witness ==
    /\ call.op = "compute_match"
    /\ board = TestBoard
    /\ call.pattern = 1
    /\ call.guess = 3
    /\ call.keys = MatchKeysNew(0, 2)

(* C8: round trip: for every pattern p of the board and every alphabet of  *)
(* color_count distinct symbols,                                           *)
(* string_to_pattern(pattern_to_string(p, alphabet), alphabet) = p.        *)
C8_RoundTrip ==
    (call.op = "round_trip" /\ Distinct(color_chars))
        => ~call.panic /\ call.value = call.pattern

(* a round trip of a pattern whose digits differ, through an alphabet that *)
(* is not in the order of Symbols                                          *)
C8_Witness ==
    /\ call.op = "round_trip"
    /\ Distinct(color_chars)
    /\ board.hole_count >= 2
    /\ color_chars # FirstSymbols(board.color_count)
    /\ call.str # Reverse(call.str)
    /\ call.value = call.pattern

(* C9: pattern_to_string(p, alphabet) returns exactly hole_count symbols,  *)
(* the base-color_count digits of p most significant first, each digit d   *)
(* mapped to alphabet[d]; with the colors A,B,C and 2 holes the patterns   *)
(* 0..8 decode to AA, AB, AC, BA, BB, BC, CA, CB, CC.                      *)
C9_Decoding ==
    call.op = "pattern_to_string" =>
        /\ Len(call.str) = board.hole_count
        /\ \A i \in 1..board.hole_count :
              call.str[i]
                = color_chars[Digit(board, call.pattern, board.hole_count - i) + 1]
        /\ (board = TestBoard /\ color_chars = TestAlphabet)
              => call.str = << <<"A", "A">>, <<"A", "B">>, <<"A", "C">>,
                               <<"B", "A">>, <<"B", "B">>, <<"B", "C">>,
                               <<"C", "A">>, <<"C", "B">>, <<"C", "C">> >>
                                  [call.pattern + 1]

(* pattern 5 of the test board decoded as BC *)
C9_Witness ==
    /\ call.op = "pattern_to_string"
    /\ board = TestBoard
    /\ color_chars = TestAlphabet
    /\ call.pattern = 5
    /\ call.str = <<"B", "C">>

----------------------------------------------------------------------------
(* Properties of the Game and of the driver loops *)

PatternCount == total_pattern_count(board)

Candidates == Range(pattern_list)

(* The candidates of list that give feedback k against guess g. *)
Group(m, list, g, k) == {i \in 1..Len(list) : m[g][list[i]] = k}

GroupKeys(m, list, g) == {m[g][list[i]] : i \in 1..Len(list)}

(* The size of the largest equal-feedback group of the candidates. *)
WorstCase(m, list, g) ==
    LET sizes == {Cardinality(Group(m, list, g, k)) : k \in GroupKeys(m, list, g)}
    IN  IF sizes = {} THEN 0 ELSE CHOOSE n \in sizes : \A x \in sizes : x <= n

RECURSIVE SumSquares(_, _, _, _)
SumSquares(m, list, g, ks) ==
    IF ks = {} THEN 0
    ELSE LET k == CHOOSE x \in ks : TRUE
             n == Cardinality(Group(m, list, g, k))
         IN  n * n + SumSquares(m, list, g, ks \ {k})

Score(m, list, g) ==
    <<WorstCase(m, list, g), SumSquares(m, list, g, GroupKeys(m, list, g))>>

LexLess(a, b) == a[1] < b[1] \/ (a[1] = b[1] /\ a[2] < b[2])

(* The smallest pattern among the guesses of the universe whose            *)
(* (row_max, total_length) no guess is below.                              *)
MinimaxGuess(m, list) ==
    LET score == [g \in DOMAIN m |-> Score(m, list, g)]
    IN  CHOOSE g \in DOMAIN m :
           /\ \A h \in DOMAIN m : ~LexLess(score[h], score[g])
           /\ \A h \in DOMAIN m : h < g => LexLess(score[g], score[h])

(* get_guess has returned and the candidates are those it saw. *)
Guessed == pc \in {"feedback", "check", "answer", "lucky"}

(* The secret of the run is a pattern of the universe. *)
SecretInUniverse ==
    \/ mode = "all"
    \/ /\ mode = "guess"
       /\ LET r == string_to_pattern(board, code_str, color_chars)
          IN  ~r.panic /\ r.value < PatternCount

Ended == pc \in {"answer", "lucky", "panic"}

(* C1 as stated: every game against a secret of the universe ends with a   *)
(* candidate set of size 1 whose member is the secret, after at most       *)
(* pattern_count turns.                                                    *)
C1_EndsWithSecretAlone ==
    (SecretInUniverse /\ Ended)
        => pattern_list = <<code>> /\ count <= PatternCount

(* C1, amended: every game against a secret of the universe ends after at  *)
(* most pattern_count turns with the secret as its last guess: either with *)
(* the candidate set of size 1 whose member is the secret, or on the       *)
(* feedback {hole_count, 0} for a guess that is the secret, before         *)
(* apply_match, the candidate set then still holding the secret, perhaps   *)
(* among others. (Every turn of the loop adds one to count, and the loop   *)
(* has no exit but its two breaks and a panic: a turn starting only below  *)
(* pattern_count turns, without panic, is termination within the bound.)   *)
C1_Convergence ==
    SecretInUniverse =>
        /\ pc # "panic"
        /\ count <= PatternCount
        /\ pc = "get_guess" => count < PatternCount
        /\ pc = "answer" => pattern_list = <<code>> /\ guess = code
        /\ pc = "lucky" => guess = code /\ code \in Candidates

(* a game that took three turns to leave the secret alone *)
C1_Witness ==
    /\ SecretInUniverse
    /\ pc = "answer"
    /\ count >= 3
    /\ pattern_list = <<code>>
    /\ guess = code

(* C2 as stated: whenever the candidate set has more than one member,      *)
(* get_guess returns the guess of the universe minimizing                  *)
(* (row_max, total_length), the smallest pattern among those tied.         *)
C2_MinimaxAboveOne ==
    (pc \in {"feedback", "check", "lucky"} /\ Len(pattern_list) > 1)
        => guess = MinimaxGuess(matches, pattern_list)

(* C2, amended: whenever the candidate set has more than two members,      *)
(* get_guess returns the guess of the universe minimizing                  *)
(* (row_max, total_length), the smallest pattern among those tied; with    *)
(* one or two members it returns the first candidate without a search.     *)
C2_MinimaxAboveTwo ==
    Guessed =>
        guess = IF Len(pattern_list) > 2
                THEN MinimaxGuess(matches, pattern_list)
                ELSE pattern_list[1]

(* a later turn with more than two candidates, where the guess chosen is   *)
(* not a candidate and a larger pattern has the same score                 *)
C2_Witness ==
    /\ pc = "feedback"
    /\ count >= 2
    /\ Len(pattern_list) > 2
    /\ guess \notin Candidates
    /\ \E h \in DOMAIN matches :
          /\ h > guess
          /\ Score(matches, pattern_list, h) = Score(matches, pattern_list, guess)

(* C3: the first guess get_guess returns on the full candidate set has a   *)
(* worst-case group size no larger than that of any other guess of the     *)
(* universe: on the board of 3 colors and 2 holes the claim names, and on  *)
(* every other board within the bounds.                                    *)
C3_FirstGuessMinimax ==
    (Guessed /\ count = 1) =>
        /\ guess \in DOMAIN matches
        /\ \A g \in DOMAIN matches :
              WorstCase(matches, pattern_list, guess)
                 <= WorstCase(matches, pattern_list, g)

(* the first guess on the 9 candidates of the test board: worst case 4 *)
C3_Witness ==
    /\ board = TestBoard
    /\ pc = "feedback"
    /\ count = 1
    /\ Len(pattern_list) = 9
    /\ WorstCase(matches, pattern_list, guess) = 4

(* C5: when apply_match has left no candidate (the board has patterns, the *)
(* candidate set is empty), the next get_guess fails with an explicit      *)
(* error outcome, it does not panic on pattern_list[0].                    *)
C5_ExplicitError ==
    (PatternCount > 0 /\ pattern_list = <<>> /\ count > 0 /\ pc # "get_guess")
        => pc = "error"

(* C10: in a game against a secret of the universe, with the feedback      *)
(* computed by compute_match(guess, secret), the secret is a candidate in  *)
(* every state: the candidate set never becomes empty.                     *)
C10_SecretStays ==
    (SecretInUniverse /\ pc # "start")
        => code \in Candidates /\ pattern_list # <<>>

(* the secret still a candidate after two filterings that removed others *)
C10_Witness ==
    /\ SecretInUniverse
    /\ pc = "get_guess"
    /\ count = 2
    /\ Len(pattern_list) > 1
    /\ Len(pattern_list) < PatternCount
    /\ code \in Candidates

----------------------------------------------------------------------------
(* Properties of apply_match (checked under GameSpec) *)

(* new is old without some elements, the others in their order. *)
RECURSIVE IsSubSeq(_, _)
IsSubSeq(new, old) ==
    IF new = <<>> THEN TRUE
    ELSE IF old = <<>> THEN FALSE
    ELSE IF Head(new) = Head(old) THEN IsSubSeq(Tail(new), Tail(old))
    ELSE IsSubSeq(new, Tail(old))

(* C4: monotonic shrinkage: for any guess and any observed feedback, after *)
(* apply_match the candidate set is a subsequence of the one before (same  *)
(* relative order, not longer, nothing added), every retained candidate p  *)
(* has matrix[guess][p] equal to the feedback and every removed one fails  *)
(* that equality.                                                          *)
C4_Shrinkage ==
    [][(call'.op = "apply_match" /\ count' # count) =>
          /\ IsSubSeq(pattern_list', pattern_list)
          /\ Len(pattern_list') <= Len(pattern_list)
          /\ Range(pattern_list') \subseteq Range(pattern_list)
          /\ \A p \in Range(pattern_list') :
                matches[call'.guess][p] = call'.keys
          /\ \A p \in Range(pattern_list) \ Range(pattern_list') :
                matches[call'.guess][p] # call'.keys
      ]_vars

(* a second apply_match, with a guess that is no candidate, that left some *)
(* candidates and removed others                                           *)
C4_Witness ==
    /\ call.op = "apply_match"
    /\ count = 2
    /\ call.guess \notin Candidates
    /\ Len(pattern_list) >= 2
    /\ Len(pattern_list) + 2 <= PatternCount

============================================================================
